---- MODULE Spec2Model ----
(***************************************************************************)
(* Model of pygraph.Graph: an adjacency-list graph (directed or            *)
(* undirected) kept in an insertion-ordered dict of neighbour lists.       *)
(*                                                                         *)
(* The dict self.graph is a sequence of <<node, neighbours>> pairs in key  *)
(* insertion order.  Node identities are None and the integers 1..MaxNode; *)
(* None is encoded as 0 and is the one identity without an ordering.       *)
(***************************************************************************)
EXTENDS Integers, Sequences, FiniteSets, TLC

\* Spec: node identities are None and 1..MaxNode, at most MaxEdges edges
MaxNode == 2
MaxEdges == 3
\* SpecCanon, SpecRun: at most MaxSize nodes and edges together
MaxSize == 7

None == 0
Ids == {None} \cup (1..MaxNode)

\* graph, directed: the fields of the Graph object
\* pc: the method whose worklist loop is running, or "idle" between calls
\* loc: the locals of that loop;  end_arg: the end argument of shortest_path
VARIABLES graph, directed, pc, loc, end_arg

vars == <<graph, directed, pc, loc, end_arg>>

(* ---------------------------------------------------------------------- *)
(* Python list / dict helpers                                              *)
(* ---------------------------------------------------------------------- *)

\* x in lst
In(x, lst) == \E i \in DOMAIN lst : lst[i] = x

\* set(lst)
Elems(lst) == {lst[i] : i \in DOMAIN lst}

\* reversed(lst)
Reversed(lst) == [i \in 1..Len(lst) |-> lst[Len(lst) + 1 - i]]

\* list(g.keys())
Keys(g) == [i \in 1..Len(g) |-> g[i][1]]

\* node in g
Has(g, n) == \E i \in DOMAIN g : g[i][1] = n

\* g.get(n, [])
Get(g, n) == IF Has(g, n) THEN g[CHOOSE i \in DOMAIN g : g[i][1] = n][2] ELSE <<>>

\* g[a].append(b)
AppendTo(g, a, b) ==
  [i \in 1..Len(g) |-> IF g[i][1] = a THEN <<a, Append(g[i][2], b)>> ELSE g[i]]

\* a result that may be Python's None
Absent == [absent |-> TRUE, value |-> <<>>]
Some(s) == [absent |-> FALSE, value |-> s]

(* ---------------------------------------------------------------------- *)
(* Mutation                                                                *)
(* ---------------------------------------------------------------------- *)

AddNode(g, node) == IF ~Has(g, node) THEN Append(g, <<node, <<>>>>) ELSE g

\* add_edge that never stores the reverse entry
AddEdge_oneway(g, d, node1, node2) ==
  LET g1 == AddNode(AddNode(g, node1), node2)
  IN  IF ~In(node2, Get(g1, node1)) THEN AppendTo(g1, node1, node2) ELSE g1

\* add_edge without the membership tests
AddEdge_dup(g, d, node1, node2) ==
  LET g1 == AddNode(AddNode(g, node1), node2)
      g2 == AppendTo(g1, node1, node2)
  IN  IF ~d THEN AppendTo(g2, node2, node1) ELSE g2

AddEdge(g, d, node1, node2) ==
  LET g1 == AddNode(AddNode(g, node1), node2)
  IN  IF ~In(node2, Get(g1, node1))
      THEN LET g2 == AppendTo(g1, node1, node2)
           IN  IF ~d /\ ~In(node1, Get(g2, node2))
               THEN AppendTo(g2, node2, node1)
               ELSE g2
      ELSE g1

(* ---------------------------------------------------------------------- *)
(* Queries                                                                 *)
(* ---------------------------------------------------------------------- *)

get_nodes(g) == Keys(g)

get_neighbors(g, node) == Get(g, node)

\* the (node, neighbor) pairs in the order the nested loops of get_edges meet them
RECURSIVE Pairs(_, _)
Pairs(g, i) ==
  IF i > Len(g) THEN <<>>
  ELSE [j \in 1..Len(g[i][2]) |-> <<g[i][1], g[i][2][j]>>] \o Pairs(g, i + 1)

\* neighbor < node: None has no ordering, the comparison raises TypeError
LessRaises(a, b) == a = None \/ b = None

\* get_edges without the skip of the mirrored entry
get_edges_all(g, d) ==
  IF ~d /\ \E k \in DOMAIN Pairs(g, 1) : LessRaises(Pairs(g, 1)[k][2], Pairs(g, 1)[k][1])
  THEN [raised |-> TRUE, edges |-> <<>>]
  ELSE [raised |-> FALSE, edges |-> Pairs(g, 1)]

get_edges(g, d) ==
  LET all == Pairs(g, 1)
      Keep(e) == ~(~d /\ e[2] < e[1])
  IN  IF ~d /\ \E k \in DOMAIN all : LessRaises(all[k][2], all[k][1])
      THEN [raised |-> TRUE, edges |-> <<>>]
      ELSE [raised |-> FALSE, edges |-> SelectSeq(all, Keep)]

(* ---------------------------------------------------------------------- *)
(* Cycle detection                                                         *)
(* ---------------------------------------------------------------------- *)

RECURSIVE cd_dfs(_, _, _), cd_for(_, _, _, _)

\* inner dfs(node) of _has_cycle_directed; st = [found, visited, rec_stack]
cd_dfs(g, node, st) ==
  cd_for(g, node, 1, [found |-> FALSE,
                      visited |-> st.visited \cup {node},
                      rec_stack |-> st.rec_stack \cup {node}])

cd_for(g, node, i, st) ==
  IF i > Len(Get(g, node))
  THEN [found |-> FALSE, visited |-> st.visited, rec_stack |-> st.rec_stack \ {node}]
  ELSE LET neighbor == Get(g, node)[i]
       IN  IF neighbor \notin st.visited
           THEN LET r == cd_dfs(g, neighbor, st)
                IN  IF r.found THEN r ELSE cd_for(g, node, i + 1, r)
           ELSE IF neighbor \in st.rec_stack
                THEN [found |-> TRUE, visited |-> st.visited, rec_stack |-> st.rec_stack]
                ELSE cd_for(g, node, i + 1, st)

RECURSIVE cd_outer(_, _, _)
cd_outer(g, i, st) ==
  IF i > Len(g) THEN FALSE
  ELSE IF g[i][1] \notin st.visited
       THEN LET r == cd_dfs(g, g[i][1], st)
            IN  IF r.found THEN TRUE ELSE cd_outer(g, i + 1, r)
       ELSE cd_outer(g, i + 1, st)

has_cycle_directed(g) ==
  cd_outer(g, 1, [found |-> FALSE, visited |-> {}, rec_stack |-> {}])

RECURSIVE cu_dfs(_, _, _, _), cu_for(_, _, _, _, _)

\* inner dfs(node, parent) of _has_cycle_undirected; st = [found, visited]
cu_dfs(g, node, parent, st) ==
  cu_for(g, node, parent, 1, [found |-> FALSE, visited |-> st.visited \cup {node}])

cu_for(g, node, parent, i, st) ==
  IF i > Len(Get(g, node))
  THEN [found |-> FALSE, visited |-> st.visited]
  ELSE LET neighbor == Get(g, node)[i]
       IN  IF neighbor \notin st.visited
           THEN LET r == cu_dfs(g, neighbor, node, st)
                IN  IF r.found THEN r ELSE cu_for(g, node, parent, i + 1, r)
           ELSE IF neighbor # parent
                THEN [found |-> TRUE, visited |-> st.visited]
                ELSE cu_for(g, node, parent, i + 1, st)

RECURSIVE cu_outer(_, _, _)
cu_outer(g, i, st) ==
  IF i > Len(g) THEN FALSE
  ELSE IF g[i][1] \notin st.visited
       THEN LET r == cu_dfs(g, g[i][1], None, st)
            IN  IF r.found THEN TRUE ELSE cu_outer(g, i + 1, r)
       ELSE cu_outer(g, i + 1, st)

has_cycle_undirected(g) == cu_outer(g, 1, [found |-> FALSE, visited |-> {}])

has_cycle(g, d) == IF ~d THEN has_cycle_undirected(g) ELSE has_cycle_directed(g)

(* ---------------------------------------------------------------------- *)
(* Traversals: one loop iteration as a function of the loop's state        *)
(* ---------------------------------------------------------------------- *)

dfs_init(start) == [visited |-> <<>>, stack |-> <<start>>]

\* dfs iteration that pushes the neighbours in insertion order
dfs_step_forward(g, st) ==
  LET node == st.stack[Len(st.stack)]
      rest == SubSeq(st.stack, 1, Len(st.stack) - 1)
  IN  IF ~In(node, st.visited)
      THEN [visited |-> Append(st.visited, node), stack |-> rest \o Get(g, node)]
      ELSE [visited |-> st.visited, stack |-> rest]

dfs_step(g, st) ==
  LET node == st.stack[Len(st.stack)]
      rest == SubSeq(st.stack, 1, Len(st.stack) - 1)
  IN  IF ~In(node, st.visited)
      THEN [visited |-> Append(st.visited, node),
            stack |-> rest \o Reversed(Get(g, node))]
      ELSE [visited |-> st.visited, stack |-> rest]

RECURSIVE dfs_loop(_, _)
dfs_loop(g, st) == IF st.stack = <<>> THEN st.visited ELSE dfs_loop(g, dfs_step(g, st))

dfs(g, start) == dfs_loop(g, dfs_init(start))

bfs_init(start) == [visited |-> <<>>, queue |-> <<start>>]

\* bfs iteration that enqueues neighbors[1:]
bfs_step_skip(g, st) ==
  LET node == Head(st.queue)
      rest == Tail(st.queue)
  IN  IF ~In(node, st.visited)
      THEN [visited |-> Append(st.visited, node),
            queue |-> rest \o (IF Get(g, node) = <<>> THEN <<>> ELSE Tail(Get(g, node)))]
      ELSE [visited |-> st.visited, queue |-> rest]

\* bfs iteration that reads queue[0] and pops it only when the node is new
bfs_step_peek(g, st) ==
  LET node == Head(st.queue)
  IN  IF ~In(node, st.visited)
      THEN [visited |-> Append(st.visited, node), queue |-> Tail(st.queue) \o Get(g, node)]
      ELSE st

bfs_step(g, st) ==
  LET node == Head(st.queue)
      rest == Tail(st.queue)
  IN  IF ~In(node, st.visited)
      THEN [visited |-> Append(st.visited, node), queue |-> rest \o Get(g, node)]
      ELSE [visited |-> st.visited, queue |-> rest]

RECURSIVE bfs_loop(_, _)
bfs_loop(g, st) == IF st.queue = <<>> THEN st.visited ELSE bfs_loop(g, bfs_step(g, st))

bfs(g, start) == bfs_loop(g, bfs_init(start))

(* ---------------------------------------------------------------------- *)
(* Shortest path                                                           *)
(* ---------------------------------------------------------------------- *)

\* state of the while loop; returned is set by the return inside the loop
sp_init(start) ==
  [queue |-> <<<<start, <<start>>>>>>, visited |-> {}, returned |-> FALSE, path |-> <<>>]

\* shortest_path iteration that pops the newest entry (queue.pop())
sp_step_lifo(g, end, st) ==
  LET last == st.queue[Len(st.queue)]
      node == last[1]
      path == last[2]
      rest == SubSeq(st.queue, 1, Len(st.queue) - 1)
      visited == st.visited \cup {node}
      Fresh(neighbor) == neighbor \notin visited
      fresh == SelectSeq(Get(g, node), Fresh)
  IN  IF node = end
      THEN [queue |-> rest, visited |-> st.visited, returned |-> TRUE, path |-> path]
      ELSE [queue |-> rest \o [k \in 1..Len(fresh) |-> <<fresh[k], Append(path, fresh[k])>>],
            visited |-> visited, returned |-> FALSE, path |-> <<>>]

sp_step(g, end, st) ==
  LET node == Head(st.queue)[1]
      path == Head(st.queue)[2]
      rest == Tail(st.queue)
      visited == st.visited \cup {node}
      Fresh(neighbor) == neighbor \notin visited
      fresh == SelectSeq(Get(g, node), Fresh)
  IN  IF node = end
      THEN [queue |-> rest, visited |-> st.visited, returned |-> TRUE, path |-> path]
      ELSE [queue |-> rest \o [k \in 1..Len(fresh) |-> <<fresh[k], Append(path, fresh[k])>>],
            visited |-> visited, returned |-> FALSE, path |-> <<>>]

RECURSIVE sp_loop(_, _, _)
sp_loop(g, end, st) ==
  IF st.returned THEN Some(st.path)
  ELSE IF st.queue = <<>> THEN Absent
  ELSE sp_loop(g, end, sp_step(g, end, st))

shortest_path(g, start, end) ==
  IF ~Has(g, start) \/ ~Has(g, end) THEN Absent
  ELSE sp_loop(g, end, sp_init(start))

(* ---------------------------------------------------------------------- *)
(* Topological sort                                                        *)
(* ---------------------------------------------------------------------- *)

\* in_degree after the counting loops
InDegree(g) ==
  [n \in Elems(Keys(g)) |->
     Cardinality({k \in DOMAIN Pairs(g, 1) : Pairs(g, 1)[k][2] = n})]

ts_init(g) ==
  LET deg == InDegree(g)
      Zero(n) == deg[n] = 0
  IN  [in_degree |-> deg, queue |-> SelectSeq(Keys(g), Zero), result |-> <<>>]

\* the for loop with the zero test ahead of the decrement
RECURSIVE ts_for_early(_, _, _)
ts_for_early(nbrs, i, st) ==
  IF i > Len(nbrs) THEN st
  ELSE LET neighbor == nbrs[i]
       IN  ts_for_early(nbrs, i + 1,
                  [in_degree |-> [st.in_degree EXCEPT ![neighbor] = @ - 1],
                   queue |-> IF st.in_degree[neighbor] = 0 THEN Append(st.queue, neighbor)
                             ELSE st.queue,
                   result |-> st.result])

\* the for loop over the neighbours of the dequeued node
RECURSIVE ts_for(_, _, _)
ts_for(nbrs, i, st) ==
  IF i > Len(nbrs) THEN st
  ELSE LET neighbor == nbrs[i]
           deg == [st.in_degree EXCEPT ![neighbor] = @ - 1]
       IN  ts_for(nbrs, i + 1,
                  [in_degree |-> deg,
                   queue |-> IF deg[neighbor] = 0 THEN Append(st.queue, neighbor)
                             ELSE st.queue,
                   result |-> st.result])

ts_step(g, st) ==
  LET node == Head(st.queue)
  IN  ts_for(Get(g, node), 1,
             [in_degree |-> st.in_degree, queue |-> Tail(st.queue),
              result |-> Append(st.result, node)])

RECURSIVE ts_loop(_, _)
ts_loop(g, st) == IF st.queue = <<>> THEN st.result ELSE ts_loop(g, ts_step(g, st))

\* topological_sort without the length test
topological_sort_partial(g, d) ==
  IF d /\ has_cycle(g, d) THEN Absent ELSE Some(ts_loop(g, ts_init(g)))

topological_sort(g, d) ==
  IF d /\ has_cycle(g, d) THEN Absent
  ELSE LET result == ts_loop(g, ts_init(g))
       IN  IF Len(result) # Len(g) THEN Absent ELSE Some(result)

RECURSIVE SumLen(_, _)
SumLen(g, i) == IF i > Len(g) THEN 0 ELSE Len(g[i][2]) + SumLen(g, i + 1)

\* number of stored adjacency entries
Entries(g) == SumLen(g, 1)

\* number of edges: an undirected edge between distinct nodes is two entries
NumEdges(g, d) ==
  IF d THEN Entries(g)
  ELSE (Entries(g) + Cardinality({n \in Elems(Keys(g)) : In(n, Get(g, n))})) \div 2

Init ==
  /\ graph = <<>>
  /\ directed \in BOOLEAN
  /\ pc = "idle"
  /\ loc = <<>>
  /\ end_arg = None

add_node(node) ==
  /\ pc = "idle"
  /\ graph' = AddNode(graph, node)
  /\ UNCHANGED <<directed, pc, loc, end_arg>>

add_edge(node1, node2) ==
  /\ pc = "idle"
  /\ graph' = AddEdge(graph, directed, node1, node2)
  /\ UNCHANGED <<directed, pc, loc, end_arg>>

\* the edge bound of the model
Room(node1, node2) == NumEdges(AddEdge(graph, directed, node1, node2), directed) <= MaxEdges

Next ==
  \/ \E node \in Ids : add_node(node)
  \/ \E node1 \in Ids, node2 \in Ids : Room(node1, node2) /\ add_edge(node1, node2)

Spec == Init /\ [][Next]_vars

(* ---------------------------------------------------------------------- *)
(* The worklist loops run one iteration at a time                          *)
(* ---------------------------------------------------------------------- *)

call_dfs(start) ==
  /\ pc = "idle"
  /\ pc' = "dfs"
  /\ loc' = dfs_init(start)
  /\ UNCHANGED <<graph, directed, end_arg>>

dfs_iter ==
  /\ pc = "dfs"
  /\ loc.stack # <<>>
  /\ loc' = dfs_step(graph, loc)
  /\ UNCHANGED <<graph, directed, pc, end_arg>>

dfs_return ==
  /\ pc = "dfs"
  /\ loc.stack = <<>>
  /\ pc' = "idle"
  /\ loc' = <<>>
  /\ UNCHANGED <<graph, directed, end_arg>>

call_bfs(start) ==
  /\ pc = "idle"
  /\ pc' = "bfs"
  /\ loc' = bfs_init(start)
  /\ UNCHANGED <<graph, directed, end_arg>>

bfs_iter ==
  /\ pc = "bfs"
  /\ loc.queue # <<>>
  /\ loc' = bfs_step(graph, loc)
  /\ UNCHANGED <<graph, directed, pc, end_arg>>

bfs_return ==
  /\ pc = "bfs"
  /\ loc.queue = <<>>
  /\ pc' = "idle"
  /\ loc' = <<>>
  /\ UNCHANGED <<graph, directed, end_arg>>

call_shortest_path(start, e) ==
  /\ pc = "idle"
  /\ IF ~Has(graph, start) \/ ~Has(graph, e)
     THEN UNCHANGED <<pc, loc, end_arg>>
     ELSE /\ pc' = "shortest_path"
          /\ loc' = sp_init(start)
          /\ end_arg' = e
  /\ UNCHANGED <<graph, directed>>

sp_iter ==
  /\ pc = "shortest_path"
  /\ ~loc.returned
  /\ loc.queue # <<>>
  /\ loc' = sp_step(graph, end_arg, loc)
  /\ UNCHANGED <<graph, directed, pc, end_arg>>

sp_return ==
  /\ pc = "shortest_path"
  /\ loc.returned \/ loc.queue = <<>>
  /\ pc' = "idle"
  /\ loc' = <<>>
  /\ end_arg' = None
  /\ UNCHANGED <<graph, directed>>

call_topological_sort ==
  /\ pc = "idle"
  /\ IF directed /\ has_cycle(graph, directed)
     THEN UNCHANGED <<pc, loc>>
     ELSE /\ pc' = "topological_sort"
          /\ loc' = ts_init(graph)
  /\ UNCHANGED <<graph, directed, end_arg>>

ts_iter ==
  /\ pc = "topological_sort"
  /\ loc.queue # <<>>
  /\ loc' = ts_step(graph, loc)
  /\ UNCHANGED <<graph, directed, pc, end_arg>>

ts_return ==
  /\ pc = "topological_sort"
  /\ loc.queue = <<>>
  /\ pc' = "idle"
  /\ loc' = <<>>
  /\ UNCHANGED <<graph, directed, end_arg>>

\* a running call executes its next iteration or returns
Run ==
  \/ dfs_iter \/ dfs_return
  \/ bfs_iter \/ bfs_return
  \/ sp_iter \/ sp_return
  \/ ts_iter \/ ts_return

\* SpecCanon and SpecRun name the nodes 1, 2, 3, ... in the order they are
\* added.  add_node, add_edge and the four loops compare node identities for
\* equality only, so a graph and any renaming of it behave alike; Names(g) holds
\* the nodes of g and one identity that is not a node.
Names(g) == 1..(Len(g) + 1)

Fits(g) == Len(g) + NumEdges(g, directed) <= MaxSize

NextCanon ==
  \/ \E node \in Names(graph) : Fits(AddNode(graph, node)) /\ add_node(node)
  \/ \E node1 \in Names(graph) : \E node2 \in Names(AddNode(graph, node1)) :
       Fits(AddEdge(graph, directed, node1, node2)) /\ add_edge(node1, node2)

SpecCanon == Init /\ [][NextCanon]_vars

NextRun ==
  \/ \E node \in Names(graph) : Fits(AddNode(graph, node)) /\ add_node(node)
  \/ \E node1 \in Names(graph) : \E node2 \in Names(AddNode(graph, node1)) :
       Fits(AddEdge(graph, directed, node1, node2)) /\ add_edge(node1, node2)
  \/ \E start \in Names(graph) : call_dfs(start)
  \/ \E start \in Names(graph) : call_bfs(start)
  \/ \E start \in Names(graph), e \in Names(graph) : call_shortest_path(start, e)
  \/ call_topological_sort
  \/ Run

\* a call that has started keeps executing: the program has one thread
SpecRun == Init /\ [][NextRun]_vars /\ WF_vars(Run)

(* ---------------------------------------------------------------------- *)
(* Graph-theoretic notions the properties are stated with                  *)
(* ---------------------------------------------------------------------- *)

Nodes(g) == Elems(Keys(g))

\* b is stored in a's neighbour list
Edge(g, a, b) == In(b, Get(g, a))

NoDup(lst) == \A i \in DOMAIN lst, j \in DOMAIN lst : lst[i] = lst[j] => i = j

Count(x, lst) == Cardinality({i \in DOMAIN lst : lst[i] = x})

\* nodes at most k hops from the nodes of S
RECURSIVE Within(_, _, _)
Within(g, S, k) ==
  IF k = 0 THEN S
  ELSE LET W == Within(g, S, k - 1)
       IN  W \cup {b \in Nodes(g) : \E a \in W : Edge(g, a, b)}

Reachable(g, a) == Within(g, {a}, Len(g))

\* nodes reached from a by one or more edges
ReachablePlus(g, a) == Within(g, {b \in Nodes(g) : Edge(g, a, b)}, Len(g))

Dist(g, a, b) == CHOOSE k \in 0..Len(g) :
                   /\ b \in Within(g, {a}, k)
                   /\ \A j \in 0..(k - 1) : b \notin Within(g, {a}, j)

IsWalk(g, p) == \A i \in 1..(Len(p) - 1) : Edge(g, p[i], p[i + 1])

DirectedCycle(g) == \E n \in Nodes(g) : n \in ReachablePlus(g, n)

\* nodes reached from S without crossing the edge {u, v}
RECURSIVE WithinAvoiding(_, _, _, _, _)
WithinAvoiding(g, S, k, u, v) ==
  IF k = 0 THEN S
  ELSE LET W == WithinAvoiding(g, S, k - 1, u, v)
       IN  W \cup {b \in Nodes(g) : \E a \in W : Edge(g, a, b) /\ {a, b} # {u, v}}

\* a self-loop, or an edge whose ends are also joined by a path that avoids it
UndirectedCycle(g) ==
  \/ \E n \in Nodes(g) : Edge(g, n, n)
  \/ \E u \in Nodes(g), v \in Nodes(g) :
       /\ u # v
       /\ Edge(g, u, v)
       /\ v \in WithinAvoiding(g, {u}, Len(g), u, v)

\* preorder of the recursive depth-first search; acc is the visited list so far
RECURSIVE Preorder(_, _, _), PreorderFor(_, _, _, _)
Preorder(g, node, acc) == PreorderFor(g, node, 1, Append(acc, node))

PreorderFor(g, node, i, acc) ==
  IF i > Len(Get(g, node)) THEN acc
  ELSE IF In(Get(g, node)[i], acc)
       THEN PreorderFor(g, node, i + 1, acc)
       ELSE PreorderFor(g, node, i + 1, Preorder(g, Get(g, node)[i], acc))

(* ---------------------------------------------------------------------- *)
(* Properties                                                              *)
(* ---------------------------------------------------------------------- *)

\* C1: in an undirected graph, b is in the neighbour list of a if and only if
\* a is in the neighbour list of b, after any sequence of add_node/add_edge.
UndirectedSymmetry ==
  ~directed => \A a \in Ids, b \in Ids : Edge(graph, a, b) <=> Edge(graph, b, a)

UndirectedSymmetryWitness ==
  /\ ~directed
  /\ \E a \in Ids, b \in Ids : a # b /\ Edge(graph, a, b) /\ Edge(graph, b, a)
  /\ \E a \in Ids : Edge(graph, a, a)

\* C2: add_edge is idempotent in both modes: a second add_edge(a, b) leaves the
\* adjacency mapping of the first unchanged, no neighbour list holds a node
\* twice, and a self-loop is recorded once.
AddEdgeIdempotent ==
  /\ \A a \in Ids, b \in Ids :
       AddEdge(AddEdge(graph, directed, a, b), directed, a, b)
         = AddEdge(graph, directed, a, b)
  /\ \A i \in DOMAIN graph : NoDup(graph[i][2])
  /\ NoDup(Keys(graph))

AddEdgeIdempotentWitness ==
  \E a \in Ids, b \in Ids :
    /\ a # b
    /\ Edge(graph, a, b)
    /\ Count(a, Get(graph, a)) = 1
    /\ AddEdge(graph, directed, a, b) = graph
    /\ AddEdge(graph, directed, a, a) = graph

\* C3: shortest_path returns a walk from start to end with the minimum number
\* of hops when both are known and end is reachable, and None otherwise.
ShortestPathCorrect ==
  \A start \in Names(graph), e \in Names(graph) :
    LET r == shortest_path(graph, start, e)
    IN  IF Has(graph, start) /\ Has(graph, e) /\ e \in Reachable(graph, start)
        THEN /\ ~r.absent
             /\ Len(r.value) >= 1
             /\ r.value[1] = start
             /\ r.value[Len(r.value)] = e
             /\ IsWalk(graph, r.value)
             /\ Len(r.value) - 1 = Dist(graph, start, e)
        ELSE r = Absent

\* a two-hop route exists next to the direct edge, and another end is unreachable
ShortestPathWitness ==
  \E a \in Nodes(graph), b \in Nodes(graph), c \in Nodes(graph) :
    /\ Cardinality({a, b, c}) = 3
    /\ Edge(graph, a, b) /\ Edge(graph, b, c) /\ Edge(graph, a, c)
    /\ Get(graph, a)[1] = b
    /\ shortest_path(graph, a, c) = Some(<<a, c>>)
    /\ shortest_path(graph, c, a) = Absent

\* C4: for a known start, dfs(start) and bfs(start) each hold exactly the nodes
\* reachable from start, each once.
TraversalsVisitReachable ==
  \A start \in Nodes(graph) :
    /\ Elems(dfs(graph, start)) = Reachable(graph, start)
    /\ NoDup(dfs(graph, start))
    /\ Elems(bfs(graph, start)) = Reachable(graph, start)
    /\ NoDup(bfs(graph, start))

\* a node with two incoming paths, and a node that is not reachable
TraversalsWitness ==
  \E a \in Nodes(graph), b \in Nodes(graph), c \in Nodes(graph), u \in Nodes(graph) :
    /\ Cardinality({a, b, c}) = 3
    /\ Edge(graph, a, b) /\ Edge(graph, a, c) /\ Edge(graph, b, c)
    /\ u \notin Reachable(graph, a)
    /\ Len(dfs(graph, a)) = 3
    /\ Len(bfs(graph, a)) = 3

\* C5: on a directed graph topological_sort returns None exactly when the graph
\* has a directed cycle (a self-loop included); otherwise it returns every node
\* once, with u before v for every stored edge u -> v.
TopologicalSortCorrect ==
  directed =>
    LET r == topological_sort(graph, directed)
        Pos(n) == CHOOSE i \in DOMAIN r.value : r.value[i] = n
    IN  /\ r.absent <=> DirectedCycle(graph)
        /\ ~r.absent =>
             /\ Elems(r.value) = Nodes(graph)
             /\ NoDup(r.value)
             /\ \A u \in Nodes(graph), v \in Nodes(graph) :
                  Edge(graph, u, v) => Pos(u) < Pos(v)

\* a DAG whose key order is not a topological order
TopologicalSortWitness ==
  /\ directed
  /\ ~topological_sort(graph, directed).absent
  /\ Entries(graph) >= 3
  /\ topological_sort(graph, directed).value # Keys(graph)

\* C6: has_cycle is true exactly when the graph has a cycle: in directed mode a
\* node reaches itself by one or more edges; in undirected mode a node has a
\* self-loop or a closed walk through at least three distinct nodes repeats no
\* edge.
HasCycleExact ==
  has_cycle(graph, directed)
    = (IF directed THEN DirectedCycle(graph) ELSE UndirectedCycle(graph))

\* C7: on an undirected graph over ordered identities get_edges reports each
\* edge {u, v} once: one of (u, v), (v, u) for u # v, each self-loop once, and
\* no pair that is not stored.
GetEdgesOnce ==
  LET r == get_edges(graph, directed)
  IN  (~directed /\ ~r.raised) =>
        /\ \A u \in Ids, v \in Ids :
             Edge(graph, u, v) =>
               IF u = v THEN Count(<<u, u>>, r.edges) = 1
               ELSE Count(<<u, v>>, r.edges) + Count(<<v, u>>, r.edges) = 1
        /\ \A k \in DOMAIN r.edges : Edge(graph, r.edges[k][1], r.edges[k][2])

GetEdgesOnceWitness ==
  /\ ~directed
  /\ ~get_edges(graph, directed).raised
  /\ \E u \in Ids, v \in Ids :
       /\ v < u
       /\ Edge(graph, u, v)
       /\ Edge(graph, u, u)
       /\ Keys(graph)[1] = u
       /\ Len(get_edges(graph, directed).edges) = 2

\* C8 as stated: for every undirected graph topological_sort returns None.
UndirectedSortAlwaysNone ==
  ~directed => topological_sort(graph, directed) = Absent

\* C8 amended: on an undirected graph topological_sort returns None exactly when
\* the graph has at least one edge; with no edge it returns the nodes in
\* insertion order.
UndirectedSortNoneIffEdge ==
  ~directed =>
    IF Entries(graph) > 0
    THEN topological_sort(graph, directed) = Absent
    ELSE topological_sort(graph, directed) = Some(Keys(graph))

UndirectedSortWitness ==
  /\ ~directed
  /\ Entries(graph) > 0
  /\ \E n \in Nodes(graph) : Get(graph, n) = <<>>
  /\ topological_sort(graph, directed) = Absent

\* C10: dfs(start) is the preorder of the recursive depth-first search that
\* recurses, in insertion order, into each neighbour not yet visited.
DfsIsPreorder ==
  \A start \in Names(graph) : dfs(graph, start) = Preorder(graph, start, <<>>)

\* a node is pushed twice and the second neighbour is reached through the first
DfsIsPreorderWitness ==
  \E a \in Nodes(graph), b \in Nodes(graph), c \in Nodes(graph) :
    /\ Cardinality({a, b, c}) = 3
    /\ Get(graph, a) = <<c, b>>
    /\ Edge(graph, c, b)
    /\ dfs(graph, a) = <<a, c, b>>
    /\ dfs(graph, Len(graph) + 1) = <<Len(graph) + 1>>
\* C9: every started dfs, bfs, shortest_path and topological_sort loop
\* eventually empties its worklist or returns, on cyclic graphs too.
Terminates == (pc # "idle") ~> (pc = "idle")

\* shortest_path towards a known, unreachable end on a graph with a cycle is
\* about to expand a node it has expanded before
TerminatesWitness ==
  /\ pc = "shortest_path"
  /\ loc.queue # <<>>
  /\ Head(loc.queue)[1] \in loc.visited
  /\ Has(graph, end_arg)
  /\ end_arg \notin Reachable(graph, Head(loc.queue)[2][1])
  /\ IF directed THEN DirectedCycle(graph) ELSE UndirectedCycle(graph)

====
